---- MODULE Spec2Model ----
(***************************************************************************)
(* Monte Carlo Tree Search engine of src/src/lib.rs: the arena of nodes,   *)
(* Tree::add_child, the GameState capability, MCTS::search with its four   *)
(* phases, and MCTS::get_principal_variation.                              *)
(*                                                                         *)
(* A node is addressed by its position in the sequence `tree` (the Rc      *)
(* pointer identity of a Link); position 1 is Tree::root.  Option values   *)
(* are sequences of length at most one: None is <<>>, Some(x) is <<x>>.    *)
(* f32 rewards are small integers, so sums of rewards are exact.           *)
(***************************************************************************)
EXTENDS Integers, Sequences, FiniteSets

\* ---------------------------------------------------------------- bounds
\* Largest heap a state may hold.
MaxHeap == 3
\* Largest total of the iteration counts handed to search.
MaxIter == 6
\* Largest number of nodes up to which add_child is called from outside.
MaxNodes == 3
\* Largest total of the iteration counts when add_child is also called from outside.
MaxTreeIter == 3
\* Largest total of the iteration counts where termination is checked.
MaxFairIter == 4
\* Iteration count of the end-to-end counting game run.
NimIterations == 200
\* Largest heap the end-to-end counting game starts from.
NimMaxHeap == 12

\* --------------------------------------------------------------- options
None == <<>>
Some(x) == <<x>>
is_some(o) == o # <<>>
unwrap(o) == o[1]

\* ------------------------------------------------------------- GameState
\* A GameState implementation is a heap game: its states are heaps, an action
\* takes that many from the heap, and the implementation fixes which heaps are
\* terminal with which reward, and how many may be taken (at most `max` from a
\* heap above `above`, any number from a smaller heap).
\* Rewards a terminal state may carry (f32 values that are whole numbers).
Rewards == {-1, 0, 1}
States == 0..MaxHeap
NimStates == 0..NimMaxHeap
TerminalMaps == [States -> {None} \cup {Some(r) : r \in Rewards}]
Rules == {<<11, 10>>, <<2, 2>>, <<2, 1>>}
Games == {[terminal |-> m, above |-> r[1], max |-> r[2]] : m \in TerminalMaps, r \in Rules}
\* The GameState implementation the engine is built for.
VARIABLE game
\* NimState of the tests.
NimState ==
    [terminal |-> [heap \in NimStates |-> IF heap <= 0 THEN Some(1) ELSE None],
     above |-> 11, max |-> 10]

\* GameState::get_actions: (1..=max).collect().
get_actions(heap) ==
    LET max == IF heap > game.above THEN game.max ELSE heap
    IN  [i \in 1..max |-> i]
\* GameState::get_next_state.
get_next_state(heap, action) == heap - action
\* GameState::is_terminal.
is_terminal(heap) == game.terminal[heap]


\* ------------------------------------------------------------- Node, Tree
\* A node that starts with one visit.
Node_new_visited(state, action) ==
    [parent |-> None, children |-> <<>>, visits |-> 1, value |-> 0,
     state |-> state, action |-> action]
Node_new(state, action) ==
    [parent |-> None, children |-> <<>>, visits |-> 0, value |-> 0,
     state |-> state, action |-> action]
Tree_new(state) == <<Node_new(state, None)>>
root == 1
\* A child whose parent is left unset.
add_child_orphan(t, node, state, action) ==
    Append([t EXCEPT ![node].children = Append(@, Len(t) + 1)],
           [parent |-> None, children |-> <<>>, visits |-> 0, value |-> 0,
            state |-> state, action |-> Some(action)])
\* A push to the front of children.
add_child_front(t, node, state, action) ==
    LET new_node == [Node_new(state, Some(action)) EXCEPT !.parent = Some(node)]
    IN  Append([t EXCEPT ![node].children = <<Len(t) + 1>> \o @], new_node)
add_child(t, node, state, action) ==
    LET new_node == [Node_new(state, Some(action)) EXCEPT !.parent = Some(node)]
    IN  Append([t EXCEPT ![node].children = Append(@, Len(t) + 1)], new_node)

\* ------------------------------------------------------------------ ucb1
\* ln(n) * 10^8, rounded down, for n = 1..256.
LnTable == <<
    0, 69314718, 109861228, 138629436, 160943791, 179175946, 194591014, 207944154,
    219722457, 230258509, 239789527, 248490664, 256494935, 263905732, 270805020, 277258872,
    283321334, 289037175, 294443897, 299573227, 304452243, 309104245, 313549421, 317805383,
    321887582, 325809653, 329583686, 333220451, 336729582, 340119738, 343398720, 346573590,
    349650756, 352636052, 355534806, 358351893, 361091791, 363758615, 366356164, 368887945,
    371357206, 373766961, 376120011, 378418963, 380666248, 382864139, 385014760, 387120101,
    389182029, 391202300, 393182563, 395124371, 397029191, 398898404, 400733318, 402535169,
    404305126, 406044301, 407753744, 409434456, 411087386, 412713438, 414313472, 415888308,
    417438726, 418965474, 420469261, 421950770, 423410650, 424849524, 426267987, 427666611,
    429045944, 430406509, 431748811, 433073334, 434380542, 435670882, 436944785, 438202663,
    439444915, 440671924, 441884060, 443081679, 444265125, 445434729, 446590811, 447733681,
    448863636, 449980967, 451085950, 452178857, 453259949, 454329478, 455387689, 456434819,
    457471097, 458496747, 459511985, 460517018, 461512051, 462497281, 463472898, 464439089,
    465396035, 466343909, 467282883, 468213122, 469134788, 470048036, 470953020, 471849887,
    472738781, 473619844, 474493212, 475359019, 476217393, 477068462, 477912349, 478749174,
    479579054, 480402104, 481218435, 482028156, 482831373, 483628190, 484418708, 485203026,
    485981240, 486753445, 487519732, 488280192, 489034912, 489783979, 490527477, 491265488,
    491998092, 492725368, 493447393, 494164242, 494875989, 495582705, 496284463, 496981329,
    497673374, 498360662, 499043258, 499721227, 500394630, 501063529, 501727983, 502388052,
    503043792, 503695260, 504342511, 504985600, 505624580, 506259503, 506890420, 507517381,
    508140436, 508759633, 509375020, 509986642, 510594547, 511198778, 511799381, 512396397,
    512989871, 513579843, 514166355, 514749447, 515329159, 515905529, 516478597, 517048399,
    517614973, 518178355, 518738580, 519295685, 519849703, 520400668, 520948615, 521493575,
    522035582, 522574667, 523110861, 523644196, 524174701, 524702407, 525227342, 525749537,
    526269018, 526785815, 527299955, 527811465, 528320372, 528826703, 529330482, 529831736,
    530330490, 530826769, 531320597, 531811999, 532300997, 532787616, 533271879, 533753807,
    534233425, 534710753, 535185813, 535658627, 536129216, 536597601, 537063802, 537527840,
    537989735, 538449506, 538907172, 539362754, 539816270, 540267738, 540717177, 541164605,
    541610040, 542053499, 542495001, 542934562, 543372200, 543807930, 544241771, 544673737,
    545103845, 545532111, 545958551, 546383180, 546806014, 547227067, 547646355, 548063892,
    548479693, 548893772, 549306144, 549716822, 550125821, 550533153, 550938833, 551342874,
    551745289, 552146091, 552545293, 552942908, 553338948, 553733426, 554126354, 554517744 >>
\* Fixed-point unit of a finite f32 score.  With whole rewards of magnitude at
\* most 1 the integer part of the fixed-point score is the integer part of the
\* f32 score for every parent_visits up to 51, and with all rewards 1.0 (the
\* counting game) for every parent_visits up to 256.
Scale == 10000
RECURSIVE IsqrtBetween(_, _, _)
IsqrtBetween(x, lo, hi) ==
    IF lo >= hi THEN lo
    ELSE LET mid == (lo + hi + 1) \div 2
         IN  IF mid * mid <= x THEN IsqrtBetween(x, mid, hi)
             ELSE IsqrtBetween(x, lo, mid - 1)
\* f32::sqrt of a non-negative number in units of 1/Scale^2, in units of 1/Scale.
Isqrt(x) == IsqrtBetween(x, 0, 46340)
NaN == [kind |-> "nan", fixed |-> 0]
Infinity == [kind |-> "inf", fixed |-> 0]
Finite(x) == [kind |-> "finite", fixed |-> x]
\* node_value / node_visits + sqrt(2 ln(parent_visits) / node_visits) in IEEE
\* arithmetic: 0/0, ln(0) = -inf under the root, and inf - inf are NaN.
ucb1_of(parent_visits, node_visits, node_value) ==
    IF parent_visits = 0 THEN NaN                     \* sqrt(2 * -inf / n) = sqrt(-inf)
    ELSE IF node_visits = 0 THEN
        IF parent_visits = 1 THEN NaN                 \* sqrt(0 / 0)
        ELSE IF node_value > 0 THEN Infinity          \* inf + sqrt(inf)
        ELSE NaN                                      \* 0/0 + inf, -inf + inf
    ELSE Finite((node_value * Scale) \div node_visits
                + Isqrt((2 * LnTable[parent_visits]) \div node_visits))
ucb1(t, node) ==
    LET parent_visits == t[unwrap(t[node].parent)].visits
        node_visits == t[node].visits
        node_value == t[node].value
    IN  ucb1_of(parent_visits, node_visits, node_value)
I32Max == 2147483647
\* `x as i32`: NaN is 0, infinity saturates, a finite value loses its fraction
\* (rounding toward zero).
as_i32(x) ==
    IF x.kind = "nan" THEN 0
    ELSE IF x.kind = "inf" THEN I32Max
    ELSE IF x.fixed >= 0 THEN x.fixed \div Scale
    ELSE -((-x.fixed) \div Scale)

\* ---------------------------------------------------------------- select
\* Iterator::max_by_key over a non-empty sequence of keys: the position of the
\* element kept by the fold, which keeps the later of two equal keys.
RECURSIVE max_by_key_first(_, _, _)
\* A fold that keeps the earlier of two equal keys.
max_by_key_first(keys, i, best) ==
    IF i > Len(keys) THEN best
    ELSE max_by_key_first(keys, i + 1, IF keys[i] > keys[best] THEN i ELSE best)
RECURSIVE max_by_key_from(_, _, _)
max_by_key_from(keys, i, best) ==
    IF i > Len(keys) THEN best
    ELSE max_by_key_from(keys, i + 1, IF keys[i] >= keys[best] THEN i ELSE best)
max_by_key(keys) == max_by_key_from(keys, 2, 1)
select_key(t, child) == as_i32(ucb1(t, child))
\* MCTS::select; defined when node has children (unwrap panics otherwise).
select(t, node) ==
    LET children == t[node].children
        keys == [i \in 1..Len(children) |-> select_key(t, children[i])]
    IN  children[max_by_key(keys)]

\* ---------------------------------------------------------------- expand
RECURSIVE expand_but_last(_, _, _, _)
\* A loop that leaves out the last action.
expand_but_last(t, node, actions, i) ==
    IF i >= Len(actions) THEN t
    ELSE expand_but_last(add_child(t, node, get_next_state(t[node].state, actions[i]), actions[i]),
                         node, actions, i + 1)
RECURSIVE expand_unmoved(_, _, _, _)
\* A loop that gives each child the state of its parent.
expand_unmoved(t, node, actions, i) ==
    IF i > Len(actions) THEN t
    ELSE expand_unmoved(add_child(t, node, t[node].state, actions[i]), node, actions, i + 1)
RECURSIVE expand_from(_, _, _, _)
expand_from(t, node, actions, i) ==
    IF i > Len(actions) THEN t
    ELSE expand_from(add_child(t, node, get_next_state(t[node].state, actions[i]), actions[i]),
                     node, actions, i + 1)
expand(t, node) == expand_from(t, node, get_actions(t[node].state), 1)

\* ----------------------------------------------------------- backpropagate
RECURSIVE backpropagate_below_root(_, _, _)
\* A walk that stops at the root without crediting it.
backpropagate_below_root(t, current, value) ==
    LET parent == t[current].parent
    IN  IF is_some(parent)
        THEN backpropagate_below_root(
                 [t EXCEPT ![current].visits = @ + 1, ![current].value = @ + value],
                 unwrap(parent), value)
        ELSE t
RECURSIVE backpropagate_visits_only(_, _, _, _)
\* A walk that credits the reward to the node it starts from alone.
backpropagate_visits_only(t, current, value, first) ==
    LET t2 == [t EXCEPT ![current].visits = @ + 1,
                        ![current].value = IF first THEN @ + value ELSE @]
        parent == t2[current].parent
    IN  IF is_some(parent) THEN backpropagate_visits_only(t2, unwrap(parent), value, FALSE)
        ELSE t2
backpropagate_start_value(t, current, value) ==
    backpropagate_visits_only(t, current, value, TRUE)
RECURSIVE backpropagate_twice_below(_, _, _, _)
\* A walk that credits the node it starts from twice.
backpropagate_twice_below(t, current, value, first) ==
    LET t2 == [t EXCEPT ![current].visits = IF first THEN @ + 2 ELSE @ + 1,
                        ![current].value = @ + value]
        parent == t2[current].parent
    IN  IF is_some(parent) THEN backpropagate_twice_below(t2, unwrap(parent), value, FALSE)
        ELSE t2
backpropagate_start_twice(t, current, value) ==
    backpropagate_twice_below(t, current, value, TRUE)
RECURSIVE backpropagate(_, _, _)
backpropagate(t, current, value) ==
    LET t2 == [t EXCEPT ![current].visits = @ + 1, ![current].value = @ + value]
        parent == t2[current].parent
    IN  IF is_some(parent) THEN backpropagate(t2, unwrap(parent), value) ELSE t2

\* ----------------------------------------------------------------- state
VARIABLES
    tree,         \* the nodes of MCTS::tree
    pc,           \* where the caller or search is
    remaining,    \* iterations the `for` of search has still to run
    total,        \* sum of the iteration counts of all search calls
    node,         \* search's local `node`
    sim,          \* simulate's local `state`: None outside simulate
    pv_node,      \* get_principal_variation's local `node`
    pv_actions,   \* get_principal_variation's local `actions`
    pv_path,      \* the nodes get_principal_variation's `node` has been
    log           \* the backpropagations done: <<node, value>> each
vars == <<game, tree, pc, remaining, total, node, sim, pv_node, pv_actions, pv_path, log>>

\* MCTS::new(state) for some GameState implementation.
Init ==
    /\ game \in Games
    /\ \E state \in States : tree = Tree_new(state)
    /\ pc = "idle"
    /\ remaining = 0
    /\ total = 0
    /\ node = root
    /\ sim = None
    /\ pv_node = root
    /\ pv_actions = <<>>
    /\ pv_path = <<>>
    /\ log = <<>>

\* A `for` over 0..=iterations.
search_inclusive(most) ==
    /\ pc = "idle"
    /\ \E iterations \in 0..(most - total) :
        /\ remaining' = iterations + 1
        /\ total' = total + iterations
    /\ pc' = "for"
    /\ UNCHANGED <<game, tree, node, sim, pv_node, pv_actions, pv_path, log>>
\* search(iterations) is called, the iteration counts totalling at most `most`.
search(most) ==
    /\ pc = "idle"
    /\ \E iterations \in 0..(most - total) :
        /\ remaining' = iterations
        /\ total' = total + iterations
    /\ pc' = "for"
    /\ UNCHANGED <<game, tree, node, sim, pv_node, pv_actions, pv_path, log>>
SearchCall == search(MaxIter)

\* The `for` takes its next iteration: node = root.
IterationStart ==
    /\ pc = "for"
    /\ remaining > 0
    /\ remaining' = remaining - 1
    /\ node' = root
    /\ pc' = "while"
    /\ UNCHANGED <<game, tree, total, sim, pv_node, pv_actions, pv_path, log>>

\* The `for` is exhausted: search returns.
SearchReturn ==
    /\ pc = "for"
    /\ remaining = 0
    /\ pc' = "idle"
    /\ UNCHANGED <<game, tree, remaining, total, node, sim, pv_node, pv_actions, pv_path, log>>

descending(t, n) == t[n].children # <<>> /\ ~is_some(is_terminal(t[n].state))

\* One turn of the selection `while`.
Descend ==
    /\ pc = "while"
    /\ descending(tree, node)
    /\ node' = select(tree, node)
    /\ UNCHANGED <<game, tree, pc, remaining, total, sim, pv_node, pv_actions, pv_path, log>>

\* The reached state is terminal: its reward is backpropagated.
BackpropagateTerminal ==
    /\ pc = "while"
    /\ ~descending(tree, node)
    /\ is_some(is_terminal(tree[node].state))
    /\ LET value == unwrap(is_terminal(tree[node].state))
       IN  /\ tree' = backpropagate(tree, node, value)
           /\ log' = Append(log, <<node, value>>)
    /\ pc' = "for"
    /\ UNCHANGED <<game, remaining, total, node, sim, pv_node, pv_actions, pv_path>>

\* An expansion of whatever leaf is reached, terminal or not.
ExpandTerminalToo ==
    /\ pc = "while"
    /\ tree[node].children = <<>>
    /\ tree' = expand(tree, node)
    /\ pc' = "select"
    /\ UNCHANGED <<game, remaining, total, node, sim, pv_node, pv_actions, pv_path, log>>
\* The reached leaf is not terminal: it is expanded.
Expand ==
    /\ pc = "while"
    /\ ~descending(tree, node)
    /\ ~is_some(is_terminal(tree[node].state))
    /\ tree' = expand(tree, node)
    /\ pc' = "select"
    /\ UNCHANGED <<game, remaining, total, node, sim, pv_node, pv_actions, pv_path, log>>

\* select on the expanded leaf; simulate starts from the selected child's state.
SelectExpanded ==
    /\ pc = "select"
    /\ tree[node].children # <<>>
    /\ node' = select(tree, node)
    /\ sim' = Some(tree[node'].state)
    /\ pc' = "simulate"
    /\ UNCHANGED <<game, tree, remaining, total, pv_node, pv_actions, pv_path, log>>

\* select on a leaf without children counted as a rollout of reward 0.
SelectNothing ==
    /\ pc = "select"
    /\ tree[node].children = <<>>
    /\ tree' = backpropagate(tree, node, 0)
    /\ pc' = "for"
    /\ UNCHANGED <<game, remaining, total, node, sim, pv_node, pv_actions, pv_path, log>>
\* select on a leaf that expand gave no child: Option::unwrap panics.
SelectPanic ==
    /\ pc = "select"
    /\ tree[node].children = <<>>
    /\ pc' = "panic"
    /\ UNCHANGED <<game, tree, remaining, total, node, sim, pv_node, pv_actions, pv_path, log>>

\* A turn that drops the state get_next_state returns.
SimulateStepDropped ==
    /\ pc = "simulate"
    /\ ~is_some(is_terminal(unwrap(sim)))
    /\ get_actions(unwrap(sim)) # <<>>
    /\ UNCHANGED vars
\* One turn of simulate's `while`: a random action is applied.
SimulateStep ==
    /\ pc = "simulate"
    /\ ~is_some(is_terminal(unwrap(sim)))
    /\ LET actions == get_actions(unwrap(sim))
       IN  /\ actions # <<>>
           /\ \E random \in 0..(Len(actions) - 1) :
                sim' = Some(get_next_state(unwrap(sim), actions[(random % Len(actions)) + 1]))
    /\ UNCHANGED <<game, tree, pc, remaining, total, node, pv_node, pv_actions, pv_path, log>>

\* simulate on a non-terminal state without actions: the remainder by zero panics.
SimulatePanic ==
    /\ pc = "simulate"
    /\ ~is_some(is_terminal(unwrap(sim)))
    /\ get_actions(unwrap(sim)) = <<>>
    /\ pc' = "panic"
    /\ UNCHANGED <<game, tree, remaining, total, node, sim, pv_node, pv_actions, pv_path, log>>

\* simulate returns the terminal reward, which is backpropagated from the child.
BackpropagateRollout ==
    /\ pc = "simulate"
    /\ is_some(is_terminal(unwrap(sim)))
    /\ LET value == unwrap(is_terminal(unwrap(sim)))
       IN  /\ tree' = backpropagate(tree, node, value)
           /\ log' = Append(log, <<node, value>>)
    /\ sim' = None
    /\ pc' = "for"
    /\ UNCHANGED <<game, remaining, total, node, pv_node, pv_actions, pv_path>>

\* A start that pushes the action of the root: unwrap of None panics.
PrincipalVariationCallRootAction ==
    /\ pc = "idle"
    /\ pc' = IF is_some(tree[root].action) THEN "pv" ELSE "panic"
    /\ pv_node' = root
    /\ pv_actions' = tree[root].action
    /\ pv_path' = <<root>>
    /\ UNCHANGED <<game, tree, remaining, total, node, sim, log>>
\* get_principal_variation is called: node = root, actions = Vec::new().
PrincipalVariationCall ==
    /\ pc = "idle"
    /\ pv_node' = root
    /\ pv_actions' = <<>>
    /\ pv_path' = <<root>>
    /\ pc' = "pv"
    /\ UNCHANGED <<game, tree, remaining, total, node, sim, log>>

\* The earlier of two equally visited children.
most_visited_first(t, n) ==
    LET children == t[n].children
        keys == [i \in 1..Len(children) |-> t[children[i]].visits]
    IN  children[max_by_key_first(keys, 2, 1)]
\* min_by_key in place of max_by_key: the first of the least visited children.
least_visited(t, n) ==
    LET children == t[n].children
        keys == [i \in 1..Len(children) |-> 0 - t[children[i]].visits]
    IN  children[max_by_key_first(keys, 2, 1)]
\* The children of the root in place of the children of node.
most_visited_of_root(t, n) ==
    LET children == t[root].children
        keys == [i \in 1..Len(children) |-> t[children[i]].visits]
    IN  children[max_by_key(keys)]
\* The child max_by_key(visits) keeps: the later of two equally visited children.
most_visited(t, n) ==
    LET children == t[n].children
        keys == [i \in 1..Len(children) |-> t[children[i]].visits]
    IN  children[max_by_key(keys)]

\* One turn of get_principal_variation's `loop` with a child to move to.
PrincipalVariationStep ==
    /\ pc = "pv"
    /\ tree[pv_node].children # <<>>
    /\ LET child == most_visited(tree, pv_node)
       IN  /\ pv_actions' = Append(pv_actions, unwrap(tree[child].action))
           /\ pv_node' = child
           /\ pv_path' = Append(pv_path, child)
    /\ UNCHANGED <<game, tree, pc, remaining, total, node, sim, log>>

\* The `loop` breaks at a node without children: actions is returned.
PrincipalVariationReturn ==
    /\ pc = "pv"
    /\ tree[pv_node].children = <<>>
    /\ pc' = "idle"
    /\ pv_node' = root
    /\ pv_actions' = <<>>
    /\ pv_path' = <<>>
    /\ UNCHANGED <<game, tree, remaining, total, node, sim, log>>

\* Tree::add_child called on the engine's tree from outside search.
AddStates == 0..1
AddActions == 1..2
add_child_call(parent, state, action) ==
    /\ pc = "idle"
    /\ Len(tree) < MaxNodes
    /\ tree' = add_child(tree, parent, state, action)
    /\ UNCHANGED <<game, pc, remaining, total, node, sim, pv_node, pv_actions, pv_path, log>>
AddChildCall ==
    \E parent \in 1..Len(tree), state \in AddStates, action \in AddActions :
        add_child_call(parent, state, action)

Next ==
    \/ SearchCall
    \/ IterationStart
    \/ SearchReturn
    \/ Descend
    \/ BackpropagateTerminal
    \/ Expand
    \/ SelectExpanded
    \/ SelectPanic
    \/ SimulateStep
    \/ SimulatePanic
    \/ BackpropagateRollout
    \/ PrincipalVariationCall
    \/ PrincipalVariationStep
    \/ PrincipalVariationReturn

Spec == Init /\ [][Next]_vars

\* A step of a running search.  search is a blocking, single-threaded call:
\* once entered it keeps running until it returns or panics.
SearchStep ==
    \/ IterationStart
    \/ SearchReturn
    \/ Descend
    \/ BackpropagateTerminal
    \/ Expand
    \/ SelectExpanded
    \/ SelectPanic
    \/ SimulateStep
    \/ SimulatePanic
    \/ BackpropagateRollout
\* The implementations whose heaps of two and more are not terminal.
FairGames == {g \in Games : \A heap \in States \ {0, 1} : g.terminal[heap] = None}
InitFair ==
    /\ Init
    /\ game \in FairGames
SearchCallFair == search(MaxFairIter)
NextFair ==
    \/ SearchCallFair
    \/ SearchStep
    \/ PrincipalVariationCall
    \/ PrincipalVariationStep
    \/ PrincipalVariationReturn
SpecFair == InitFair /\ [][NextFair]_vars /\ WF_vars(SearchStep)

\* The engine with Tree::add_child also called between searches, for the
\* implementations that end at the empty heap at most and take freely from a
\* heap of two or less.
TreeGames ==
    {g \in Games : g.max # 2 /\ \A heap \in States \ {0} : g.terminal[heap] = None}
InitTree ==
    /\ Init
    /\ game \in TreeGames
SearchCallTree == search(MaxTreeIter)
NextTree ==
    \/ SearchCallTree
    \/ AddChildCall
    \/ IterationStart
    \/ SearchReturn
    \/ Descend
    \/ BackpropagateTerminal
    \/ Expand
    \/ SelectExpanded
    \/ SelectPanic
    \/ SimulateStep
    \/ SimulatePanic
    \/ BackpropagateRollout
    \/ PrincipalVariationCall
    \/ PrincipalVariationStep
    \/ PrincipalVariationReturn

SpecTree == InitTree /\ [][NextTree]_vars

\* The engine with Tree::add_child, for the implementations that end at a heap
\* of one at most and whose empty heap is not terminal and has no action: a
\* dead end.
DeadEndGames ==
    {g \in Games : \A heap \in States \ {1} : g.terminal[heap] = None}
InitDeadEnd ==
    /\ Init
    /\ game \in DeadEndGames
SpecDeadEnd == InitDeadEnd /\ [][NextTree]_vars

\* The counting game of the tests, searched once with NimIterations iterations.
InitNim ==
    /\ game = NimState
    /\ \E heap \in NimStates : tree = Tree_new(heap)
    /\ pc = "idle"
    /\ remaining = 0
    /\ total = 0
    /\ node = root
    /\ sim = None
    /\ pv_node = root
    /\ pv_actions = <<>>
    /\ pv_path = <<>>
    /\ log = <<>>

SearchCallNim ==
    /\ pc = "idle"
    /\ total = 0
    /\ remaining' = NimIterations
    /\ total' = NimIterations
    /\ pc' = "for"
    /\ UNCHANGED <<game, tree, node, sim, pv_node, pv_actions, pv_path, log>>

NextNim ==
    \/ SearchCallNim
    \/ IterationStart
    \/ SearchReturn
    \/ Descend
    \/ BackpropagateTerminal
    \/ Expand
    \/ SelectExpanded
    \/ SimulateStep
    \/ BackpropagateRollout
    \/ PrincipalVariationCall
    \/ PrincipalVariationStep
    \/ PrincipalVariationReturn

SpecNim == InitNim /\ [][NextNim]_vars

\* ================================================================ claims
\* The GameState contract: a state that is not terminal has an action.  (Every
\* action shrinks the heap, so every rollout of a heap game ends.)
contract == \A heap \in States : ~is_some(is_terminal(heap)) => get_actions(heap) # <<>>
\* select is about to be applied to `node`: in the selection `while`, or on
\* the leaf just expanded.
selecting ==
    \/ pc = "while" /\ descending(tree, node)
    \/ pc = "select" /\ tree[node].children # <<>>
children_of(n) == {tree[n].children[i] : i \in 1..Len(tree[n].children)}

\* C1: under the GameState contract the root's visits equal the number of
\* iterations completed: the total of the iteration counts of all search calls
\* once they have returned, and that total less what the running call has
\* still to do at the head of its `for`.
C1_RootVisitsCountIterations ==
    contract =>
        /\ pc \in {"idle", "pv"} => tree[root].visits = total
        /\ pc = "for" => tree[root].visits = total - remaining
C1_Witness ==
    /\ contract
    /\ pc = "idle"
    /\ total >= 3
    /\ tree[root].visits = total
    /\ tree[root].children # <<>>

\* C2: whenever select is applied to a node that has a child with visits = 0,
\* the child it returns has visits = 0.
C2_ZeroVisitChildSelected ==
    (selecting /\ \E c \in children_of(node) : tree[c].visits = 0)
        => tree[select(tree, node)].visits = 0

\* The score of a visited child under a visited parent, in units of 1/Scale.
score(t, child) == ucb1(t, child).fixed
\* C3: whenever select is applied to a node all of whose children have
\* visits >= 1, no child has a greater UCB1 score than the child it returns.
C3_SelectedScoreMaximal ==
    (selecting /\ \A c \in children_of(node) : tree[c].visits >= 1)
        => \A c \in children_of(node) : score(tree, c) <= score(tree, select(tree, node))

\* The positions of the children of n whose key, as select compares it, is greatest.
greatest_keys(n) ==
    {i \in 1..Len(tree[n].children) :
        \A j \in 1..Len(tree[n].children) :
            select_key(tree, tree[n].children[j]) <= select_key(tree, tree[n].children[i])}
first_of(S) == CHOOSE i \in S : \A j \in S : i <= j
last_of(S) == CHOOSE i \in S : \A j \in S : j <= i
\* C4 as stated: whenever select is applied, it returns the first of the
\* children that share the greatest score.
C4_FirstMaximalChildWins ==
    selecting => select(tree, node) = tree[node].children[first_of(greatest_keys(node))]
\* C4 as amended: whenever select is applied, it returns the last of the
\* children that share the greatest score as select compares it; right after
\* an expansion that is the last new child.
C4_LastMaximalChildWins ==
    /\ selecting => select(tree, node) = tree[node].children[last_of(greatest_keys(node))]
    /\ (selecting /\ pc = "select")
          => select(tree, node) = tree[node].children[Len(tree[node].children)]
C4_Witness ==
    /\ selecting
    /\ Cardinality(greatest_keys(node)) >= 2
    /\ \E c \in children_of(node) : tree[c].visits > 0
    /\ select(tree, node) # tree[node].children[first_of(greatest_keys(node))]

\* C5: once search(1) has returned on a fresh engine whose root state is not
\* terminal, the root has one child per action of its state and visits = 1.
C5_FirstIterationExpandsRoot ==
    (pc = "idle" /\ total = 1 /\ ~is_some(is_terminal(tree[root].state)))
        => /\ Len(tree[root].children) = Len(get_actions(tree[root].state))
           /\ tree[root].visits = 1
C5_Witness ==
    /\ pc = "idle"
    /\ total = 1
    /\ ~is_some(is_terminal(tree[root].state))
    /\ Len(tree[root].children) >= 2
    /\ tree[root].visits = 1

\* get_principal_variation is about to return pv_actions.
returning == pc = "pv" /\ tree[pv_node].children = <<>>
\* The positions of the children of n with the greatest visits.
greatest_visits(n) ==
    {i \in 1..Len(tree[n].children) :
        \A j \in 1..Len(tree[n].children) :
            tree[tree[n].children[j]].visits <= tree[tree[n].children[i]].visits}
\* The actions along the path from n that moves to the last (latest = TRUE) or
\* the first of the children with the greatest visits, down to a childless node.
RECURSIVE greatest_visits_actions(_, _)
greatest_visits_actions(n, latest) ==
    IF tree[n].children = <<>> THEN <<>>
    ELSE LET i == IF latest THEN last_of(greatest_visits(n)) ELSE first_of(greatest_visits(n))
             c == tree[n].children[i]
         IN  <<unwrap(tree[c].action)>> \o greatest_visits_actions(c, latest)

\* C6 as stated: get_principal_variation returns the actions along the path
\* that moves at every node to the first of the children with the greatest visits.
C6_FirstGreatestVisitsPath ==
    returning => pv_actions = greatest_visits_actions(root, FALSE)
\* C6 as amended: get_principal_variation returns the actions along the path
\* that moves at every node to the last of the children with the greatest
\* visits, down to a node with no children.
C6_LastGreatestVisitsPath ==
    returning => pv_actions = greatest_visits_actions(root, TRUE)
C6_Witness ==
    /\ returning
    /\ pv_actions # <<>>
    /\ tree[pv_node].visits > 0
    /\ Cardinality(greatest_visits(root)) >= 2
    /\ greatest_visits_actions(root, TRUE) # greatest_visits_actions(root, FALSE)

RECURSIVE sum(_)
sum(seq) == IF seq = <<>> THEN 0 ELSE seq[1] + sum(Tail(seq))
\* C7: in the counting game from a heap of 3, after search(NimIterations) the
\* actions get_principal_variation returns sum to 3 and end in the terminal state.
C7_NimPrincipalVariationEmptiesHeap ==
    (returning /\ total = NimIterations /\ tree[root].state = 3)
        => /\ sum(pv_actions) = 3
           /\ is_some(is_terminal(tree[pv_node].state))
C7_Witness ==
    /\ returning
    /\ total = NimIterations
    /\ tree[root].state = 3
    /\ tree[root].visits = NimIterations
    /\ sum(pv_actions) = 3

\* The nodes from n up to and including the root.
RECURSIVE path_to_root(_, _)
path_to_root(t, n) ==
    IF is_some(t[n].parent) THEN {n} \cup path_to_root(t, unwrap(t[n].parent)) ELSE {n}
\* The backpropagations of the log that passed through n.
through(n) == {k \in 1..Len(log) : n \in path_to_root(tree, log[k][1])}
RECURSIVE sum_of_rewards(_)
sum_of_rewards(K) ==
    IF K = {} THEN 0
    ELSE LET k == CHOOSE k \in K : TRUE IN log[k][2] + sum_of_rewards(K \ {k})
statistics_from_log ==
    \A n \in 1..Len(tree) :
        /\ tree[n].visits = Cardinality(through(n))
        /\ tree[n].value = sum_of_rewards(through(n))
backpropagation_step ==
    LET done == log' # log
        last == log'[Len(log')]
    IN  /\ done <=> (pc \in {"while", "simulate"} /\ pc' = "for")
        /\ done => /\ Len(log') = Len(log) + 1
                   /\ SubSeq(log', 1, Len(log)) = log
                   /\ root \in path_to_root(tree', last[1])
        /\ Len(tree') >= Len(tree)
        /\ \A n \in 1..Len(tree) :
              IF done /\ n \in path_to_root(tree', last[1])
              THEN /\ tree'[n].visits = tree[n].visits + 1
                   /\ tree'[n].value = tree[n].value + last[2]
              ELSE /\ tree'[n].visits = tree[n].visits
                   /\ tree'[n].value = tree[n].value
        /\ \A n \in (Len(tree) + 1)..Len(tree') :
              tree'[n].visits = 0 /\ tree'[n].value = 0
\* C8: an iteration completes with exactly one backpropagation of one reward,
\* which adds 1 to visits and the reward to value on every node from the
\* backpropagated node up to and including the root and changes the statistics
\* of no other node; no other step changes visits or value; so visits never
\* decreases and each node's visits and value are the number and the sum of the
\* rewards of the backpropagations that passed through it.
C8_StatisticsUpdatedTogether ==
    /\ []statistics_from_log
    /\ [][backpropagation_step]_vars
C8_Witness ==
    /\ Len(log) >= 3
    /\ \E n \in 1..Len(tree) :
          /\ tree[n].visits >= 2
          /\ tree[n].visits < tree[root].visits
          /\ tree[n].value # 0
          /\ tree[n].value # tree[root].value

RECURSIVE depth_of(_, _)
depth_of(t, n) == IF is_some(t[n].parent) THEN 1 + depth_of(t, unwrap(t[n].parent)) ELSE 0
max_of(S) == CHOOSE i \in S : \A j \in S : j <= i
depth(t) == max_of({depth_of(t, n) : n \in 1..Len(t)})
\* C9: while get_principal_variation runs on a tree built by search and
\* add_child, the nodes it has been at are all different, the steps it has
\* taken, the length of the sequence it builds, are at most the depth of the
\* tree, and its next turn either moves to a child that carries an action or
\* returns.
C9_PrincipalVariationWithinDepth ==
    pc = "pv" =>
        /\ \A i, j \in 1..Len(pv_path) : pv_path[i] = pv_path[j] => i = j
        /\ pv_path[Len(pv_path)] = pv_node
        /\ Len(pv_actions) = Len(pv_path) - 1
        /\ Len(pv_actions) <= depth(tree)
        /\ tree[pv_node].children # <<>>
              => is_some(tree[most_visited(tree, pv_node)].action)
C9_Witness ==
    /\ returning
    /\ Len(pv_actions) >= 2
    /\ Len(pv_actions) = depth(tree)
    /\ \E n \in 1..Len(tree) : n \notin {pv_path[i] : i \in 1..Len(pv_path)}

add_child_effect(parent, state, action) ==
    LET new == Len(tree) + 1
    IN  /\ Len(tree') = new
        /\ tree'[new] = [parent |-> Some(parent), children |-> <<>>, visits |-> 0,
                         value |-> 0, state |-> state, action |-> Some(action)]
        /\ tree'[parent] = [tree[parent] EXCEPT !.children = Append(@, new)]
        /\ tree'[parent].children[Len(tree'[parent].children)] = new
        /\ \A i \in 1..Len(tree[parent].children) :
              tree'[parent].children[i] = tree[parent].children[i]
        /\ \A n \in 1..Len(tree) : n # parent => tree'[n] = tree[n]
\* C10: add_child(parent, state, action) appends one new node as the last of
\* parent.children, with that state and action, that parent, visits 0, value 0
\* and no children, and changes neither the children already there nor any
\* other node.
C10_AddChildAppendsOneNode ==
    [][\A parent \in 1..Len(tree), state \in AddStates, action \in AddActions :
          add_child_call(parent, state, action) => add_child_effect(parent, state, action)]_vars
\* Two children of one parent with the same state and action, tracked apart.
C10_Witness ==
    \E parent \in 1..Len(tree) :
        \E i, j \in 1..Len(tree[parent].children) :
            LET a == tree[parent].children[i]
                b == tree[parent].children[j]
            IN  /\ i < j
                /\ a # b
                /\ tree[a].state = tree[b].state
                /\ tree[a].action = tree[b].action
                /\ tree[a].visits # tree[b].visits

\* The tree Tree::new makes: the root alone, with no statistics.
fresh == tree = <<[parent |-> None, children |-> <<>>, visits |-> 0, value |-> 0,
                   state |-> tree[root].state, action |-> None]>>
\* C11: a call search(0), one that adds nothing to the total of the iteration
\* counts, enters the `for` with nothing to run and the tree untouched, and an
\* exhausted `for` can only return, the tree untouched; on an engine that has
\* searched with 0 iterations at most the tree is the root alone with
\* visits = 0, value = 0 and no children.
C11_SearchZeroChangesNothing ==
    /\ [](total = 0 => fresh)
    /\ [][(pc = "idle" /\ pc' = "for" /\ total' = total)
             => (remaining' = 0 /\ tree' = tree)]_vars
    /\ [][(pc = "for" /\ remaining = 0) => (pc' = "idle" /\ tree' = tree)]_vars
\* Inside search(0) on an engine that has searched before.
C11_Witness ==
    /\ pc = "for"
    /\ remaining = 0
    /\ total >= 2
    /\ Len(tree) > 1
    /\ tree[root].visits = total

\* C12: when the root's state is terminal with reward r the root never gets a
\* child, search never reaches expand, select or simulate (the only callers of
\* get_actions and get_next_state) and never panics, and after the k
\* iterations of the calls that have returned root.visits = k and
\* root.value = k * r.
C12_TerminalRootOnlyBackpropagates ==
    is_some(is_terminal(tree[root].state)) =>
        /\ Len(tree) = 1
        /\ tree[root].children = <<>>
        /\ pc \notin {"select", "simulate", "panic"}
        /\ pc \in {"idle", "pv"} =>
              /\ tree[root].visits = total
              /\ tree[root].value = total * unwrap(is_terminal(tree[root].state))
C12_Witness ==
    /\ is_some(is_terminal(tree[root].state))
    /\ unwrap(is_terminal(tree[root].state)) = -1
    /\ get_actions(tree[root].state) # <<>>
    /\ pc = "idle"
    /\ total >= 3
    /\ tree[root].value = -total

\* C13: on an engine that has searched with 0 iterations at most,
\* get_principal_variation does not panic, takes no turn of its loop and
\* returns the empty sequence.
C13_PrincipalVariationOfFreshEngineEmpty ==
    total = 0 =>
        /\ pc # "panic"
        /\ pc = "pv" => (returning /\ pv_actions = <<>> /\ pv_node = root)
C13_Witness ==
    /\ total = 0
    /\ returning
    /\ pv_actions = <<>>
    /\ ~is_some(is_terminal(tree[root].state))
    /\ get_actions(tree[root].state) # <<>>

\* C14: under the GameState contract a running search does not panic and
\* always returns, whatever the random actions of its rollouts, and it returns
\* only when every iteration asked for has been completed: one
\* backpropagation for each.
C14_SearchTerminates ==
    /\ [](contract => pc # "panic")
    /\ [][(pc = "for" /\ pc' = "idle") => Len(log) = total]_vars
    /\ [](contract => (pc \in {"for", "while", "select", "simulate"} => <>(pc = "idle")))
\* search(n), n >= 3, has returned after rollouts that took random steps.
C14_Witness ==
    /\ contract
    /\ pc = "idle"
    /\ total >= 3
    /\ Len(log) = total
    /\ \E k \in 1..Len(log) : depth_of(tree, log[k][1]) >= 2

\* The children of n are one per action of its state, in the order of
\* get_actions, each with its action and the state the action leads to.
fully_expanded(n) ==
    LET actions == get_actions(tree[n].state)
        children == tree[n].children
    IN  /\ Len(children) = Len(actions)
        /\ \A i \in 1..Len(children) :
              /\ tree[children[i]].action = Some(actions[i])
              /\ tree[children[i]].state = get_next_state(tree[n].state, actions[i])
              /\ tree[children[i]].parent = Some(n)
\* C15: every node of a searched tree is without children or has exactly one
\* child per action of its state, in order, the i-th with the i-th action and
\* the state it leads to; a node with a terminal state has no children; and
\* the children of a node that has some never change again.
C15_UnexpandedOrFullyExpanded ==
    /\ [](\A n \in 1..Len(tree) :
            /\ tree[n].children = <<>> \/ fully_expanded(n)
            /\ is_some(is_terminal(tree[n].state)) => tree[n].children = <<>>)
    /\ [][\A n \in 1..Len(tree) :
            tree[n].children # <<>> => tree'[n].children = tree[n].children]_vars
C15_Witness ==
    /\ pc = "idle"
    /\ \E n, m \in 1..Len(tree) :
          /\ n # m
          /\ Len(tree[n].children) >= 2
          /\ Len(tree[m].children) >= 2
    /\ \E n \in 1..Len(tree) :
          /\ tree[n].children = <<>>
          /\ tree[n].visits >= 1
          /\ is_some(is_terminal(tree[n].state))
          /\ get_actions(tree[n].state) # <<>>

\* n is reached from the root: at most k parent links lead from n to the root.
RECURSIVE climbs_to_root(_, _)
climbs_to_root(n, k) ==
    IF n = root THEN TRUE
    ELSE IF k = 0 \/ ~is_some(tree[n].parent) THEN FALSE
    ELSE climbs_to_root(unwrap(tree[n].parent), k - 1)
\* How many times n occurs among the children of p.
occurrences(n, p) == Cardinality({i \in 1..Len(tree[p].children) : tree[p].children[i] = n})
\* C16: the root has no parent and no action; every other node has an action
\* and one parent, occurs once among the children of that parent and nowhere
\* among the children of another node, and is led to the root by its parent
\* links; the root is the child of no node.
C16_RootedTree ==
    /\ tree[root].parent = None
    /\ tree[root].action = None
    /\ \A p \in 1..Len(tree) : occurrences(root, p) = 0
    /\ \A n \in 2..Len(tree) :
          /\ is_some(tree[n].action)
          /\ is_some(tree[n].parent)
          /\ unwrap(tree[n].parent) \in 1..Len(tree)
          /\ \A p \in 1..Len(tree) :
                occurrences(n, p) = IF p = unwrap(tree[n].parent) THEN 1 ELSE 0
          /\ climbs_to_root(n, Len(tree))
\* A tree of depth 2 and more holding children from add_child and from expand.
C16_Witness ==
    /\ depth(tree) >= 2
    /\ \E n \in 1..Len(tree) : tree[n].children # <<>> /\ ~fully_expanded(n)
    /\ \E n \in 1..Len(tree) : Len(tree[n].children) >= 2 /\ fully_expanded(n)

\* C17: the step that ends an iteration which expanded a leaf leaves the child
\* the rollout started from with visits = 1 and value = the rollout's reward,
\* and every other child of that leaf, of which there are the number of
\* actions less one, with visits = 0 and value = 0.
C17_OneSiblingRolledOut ==
    [][(pc = "simulate" /\ pc' = "for") =>
          LET leaf == unwrap(tree[node].parent)
              reward == log'[Len(log')][2]
          IN  /\ Len(tree'[leaf].children) = Len(get_actions(tree[leaf].state))
              /\ occurrences(node, leaf) = 1
              /\ tree'[node].visits = 1
              /\ tree'[node].value = reward
              /\ reward = unwrap(is_terminal(unwrap(sim)))
              /\ \A c \in children_of(leaf) :
                    c # node => (tree'[c].visits = 0 /\ tree'[c].value = 0)]_vars
\* After such an iteration below the root: three new children, one rolled out.
C17_Witness ==
    /\ pc = "for"
    /\ node # root
    /\ tree[node].visits = 1
    /\ tree[node].value # 0
    /\ tree[node].children = <<>>
    /\ log # <<>>
    /\ log[Len(log)][1] = node
    /\ LET leaf == unwrap(tree[node].parent)
       IN  /\ Len(tree[leaf].children) >= 2
           /\ \A c \in children_of(leaf) : c # node => tree[c].visits = 0

\* The iterations of all search calls that ran to their end.
completed == total - remaining - (IF pc \in {"idle", "for", "pv"} THEN 0 ELSE 1)
\* search's node is a leaf that is not terminal and has no action.
dead_end ==
    /\ ~is_some(is_terminal(tree[node].state))
    /\ get_actions(tree[node].state) = <<>>
\* What the iterations that ran to their end left: one log entry each, and the
\* statistics the log gives.
left_by_completed == Len(log) = completed /\ statistics_from_log
\* C18: on a leaf that is not terminal and has no action, expand creates no
\* child and changes nothing, select panics without a backpropagation, and the
\* statistics and the shape of the tree stay those of the completed iterations.
C18_NoActionsEndsInPanic ==
    /\ []((pc = "select" /\ dead_end) => (tree[node].children = <<>> /\ left_by_completed))
    /\ []((pc = "panic" /\ sim = None) => (dead_end /\ tree[node].children = <<>> /\ left_by_completed))
    /\ [][(pc = "while" /\ pc' = "select" /\ dead_end) => tree' = tree]_vars
    /\ [][(pc = "select" /\ dead_end) => (pc' = "panic" /\ tree' = tree /\ log' = log)]_vars
C18_Witness ==
    /\ pc = "panic"
    /\ sim = None
    /\ dead_end
    /\ node # root
    /\ Len(log) >= 2
    /\ tree[root].value # 0

RECURSIVE sum_of_visits(_, _)
\* The sum of the visits of the children of n from the i-th on.
sum_of_visits(n, i) ==
    IF i > Len(tree[n].children) THEN 0
    ELSE tree[tree[n].children[i]].visits + sum_of_visits(n, i + 1)
\* The backpropagations of the log that started at n.
started_at(n) == {k \in 1..Len(log) : log[k][1] = n}
\* C19: between iterations, a node with children has the visits of its
\* children and at most one more, the root exactly those of its children; the
\* one more is the single backpropagation that started at the node.
C19_VisitConservation ==
    pc \in {"idle", "for", "pv"} =>
        \A n \in 1..Len(tree) :
            tree[n].children # <<>> =>
                /\ sum_of_visits(n, 1) <= tree[n].visits
                /\ tree[n].visits <= 1 + sum_of_visits(n, 1)
                /\ n = root => tree[n].visits = sum_of_visits(n, 1)
                /\ tree[n].visits = Cardinality(started_at(n)) + sum_of_visits(n, 1)
                /\ Cardinality(started_at(n)) <= 1
C19_Witness ==
    /\ pc = "idle"
    /\ tree[root].visits >= 4
    /\ \E n \in 2..Len(tree) :
          /\ Len(tree[n].children) >= 2
          /\ tree[n].visits >= 3
          /\ tree[n].visits = 1 + sum_of_visits(n, 1)
====
